---------------------------- MODULE Spec2Model ----------------------------
(***************************************************************************)
(* A model of the Trading212 REST client (src/trading212_rest/__init__.py). *)
(*                                                                         *)
(* The client object holds two attributes, _api_key and host.  Every       *)
(* public method is one action; a paginated method is split at its         *)
(* blocking HTTP round trips (the first page, then one step per follow-up  *)
(* page), which is where two threads sharing the client can interleave.    *)
(* The HTTP server and the `requests` library are the environment: a       *)
(* request gets any status of Statuses, and a successful GET of a page URL *)
(* gets the page the server holds there.                                   *)
(***************************************************************************)
EXTENDS Integers, Sequences, FiniteSets, TLC

VARIABLES
    api_key,    \* self._api_key
    host,       \* self.host
    demo,       \* the demo argument given to __init__ (not stored by the code)
    server,     \* environment: page number -> the JSON page served there
    pc,         \* per caller: "idle", "paging", "returned", "raised"
    call,       \* per caller: the method running and its arguments
    response,   \* per caller: the local `response` of _process_items
    res,        \* per frame of _process_items: the local `res`
    trace,      \* per caller: the effects of the call, in order
    result      \* per caller: the value returned to the caller

vars == <<api_key, host, demo, server, pc, call, response, res, trace, result>>

---------------------------------------------------------------------------
(* Bounds of the model *)

\* pages the server holds
NumPages == 3
\* requests one call may issue before the model stops following it
MaxRequests == 4
\* entries of an instrument_shares dictionary
MaxShares == 2

Callers == {"t1", "t2"}
Pages == 1..NumPages

---------------------------------------------------------------------------
(* Python values *)

None == [t |-> "NoneType"]
PyStr(s) == [t |-> "str", v |-> s]
PyInt(n) == [t |-> "int", v |-> n]
PyBool(b) == [t |-> "bool", v |-> b]
\* a float: nan, or the number v
PyFloat(n) == [t |-> "float", nan |-> FALSE, v |-> n]
NaN == [t |-> "float", nan |-> TRUE, v |-> 0]

\* bool(x), as `while` and `if` apply it
Truthy(x) ==
    CASE x.t = "NoneType" -> FALSE
      [] x.t = "str" -> x.v # ""
      [] x.t = "int" -> x.v # 0
      [] x.t = "bool" -> x.v
      [] x.t = "float" -> x.nan \/ x.v # 0
      [] OTHER -> TRUE

\* dict.get(key): None when the key is absent
Get(obj, key) == IF key \in DOMAIN obj THEN obj[key] ELSE None

\* s[-4:]
Last4(s) == IF Len(s) <= 4 THEN s ELSE SubSeq(s, Len(s) - 3, Len(s))

StartsWith(s, p) == Len(s) >= Len(p) /\ SubSeq(s, 1, Len(p)) = p

---------------------------------------------------------------------------
(* Construction *)

HostDemoMutant(d) ==
    IF d THEN "https://demo.trading212.com" ELSE "https://live.trading212.com"

\* __init__: self.host
Host(d) ==
    IF d THEN "https://live.trading212.com" ELSE "https://live.trading212.com"

ApiKeys == {"key-AAAA1111", "k2"}

---------------------------------------------------------------------------
(* The environment: the server's pages and its responses *)

\* the items of page q: 1, 2 or 0 of them, all distinct across pages
ItemsOf(q) == [i \in 1..(q % 3) |-> 10 * q + i]

\* the host-relative path the server gives as a pointer to page q
PagePath(q) == "/p" \o ToString(q)

\* what a page's nextPagePath may be: absent, null, "", or a pointer to a page
Pointers ==
    {[k |-> "absent"], [k |-> "null"], [k |-> "str", v |-> ""]}
        \cup {[k |-> "str", v |-> PagePath(q)] : q \in Pages}

PageJson(q, ptr) ==
    CASE ptr.k = "absent" -> [items |-> ItemsOf(q)]
      [] ptr.k = "null" -> [items |-> ItemsOf(q), nextPagePath |-> None]
      [] OTHER -> [items |-> ItemsOf(q), nextPagePath |-> PyStr(ptr.v)]

Servers == {[q \in Pages |-> PageJson(q, f[q])] : f \in [Pages -> Pointers]}

\* the first page of each paginated endpoint
FirstPage(endpoint) ==
    CASE endpoint = "equity/history/orders" -> 1
      [] endpoint = "history/dividends" -> 2
      [] endpoint = "history/transactions" -> 3

PaginatedEndpoints ==
    {"equity/history/orders", "history/dividends", "history/transactions"}

\* the pages a GET of url is answered with
PagesAt(url) ==
    {q \in Pages :
        \/ url = host \o "/" \o PagePath(q)
        \/ \E e \in PaginatedEndpoints :
              url = host \o "/api/v0/" \o e /\ q = FirstPage(e)}

Statuses == {200, 401, 500}

ErrorText(status) == "error body " \o ToString(status)

IsPageUrl(url) ==
    \/ \E q \in Pages : url = host \o "/" \o PagePath(q)
    \/ \E e \in PaginatedEndpoints : url = host \o "/api/v0/" \o e

\* every response the environment may give to a request
Responses(req) ==
    {[status |-> s, text |-> ErrorText(s), json |-> None] :
        s \in Statuses \ {200}}
    \cup
    (IF req.verb = "GET" /\ IsPageUrl(req.url)
        THEN {[status |-> 200, text |-> "page", json |-> server[q]] :
                q \in PagesAt(req.url)}
        ELSE {[status |-> 200, text |-> "json", json |-> PyStr("json")]})

---------------------------------------------------------------------------
(* Request Builder *)

\* _get
_get(endpoint, params) ==
    [ev |-> "request", verb |-> "GET",
     url |-> host \o "/api/" \o "v0" \o "/" \o endpoint,
     headers |-> [Authorization |-> api_key], payload |-> params]

\* _post
_post(endpoint, data) ==
    [ev |-> "request", verb |-> "POST",
     url |-> host \o "/api/" \o "v0" \o "/" \o endpoint,
     headers |-> [Authorization |-> api_key], payload |-> data]

_get_url_NoAuthMutant(url) ==
    [ev |-> "request", verb |-> "GET", url |-> host \o "/" \o url,
     headers |-> [Accept |-> "application/json"], payload |-> None]

\* _get_url
_get_url(url) ==
    [ev |-> "request", verb |-> "GET", url |-> host \o "/" \o url,
     headers |-> [Authorization |-> api_key], payload |-> None]

\* _delete_url
_delete_url(url) ==
    [ev |-> "request", verb |-> "DELETE", url |-> host \o "/" \o url,
     headers |-> [Authorization |-> api_key], payload |-> None]

---------------------------------------------------------------------------
(* Response Normalizer *)

\* requests.Response.raise_for_status raises HTTPError
raise_for_status(resp) == resp.status >= 400 /\ resp.status < 600

_process_response_NoLogMutant(resp) ==
    IF raise_for_status(resp)
        THEN <<[ev |-> "raise", exc |-> "HTTPError", status |-> resp.status]>>
        ELSE <<>>

\* _process_response: the effects of a failed response, in order (none when
\* the response is decoded and returned)
_process_response(resp) ==
    IF raise_for_status(resp)
        THEN <<[ev |-> "log", text |-> resp.text],
               [ev |-> "raise", exc |-> "HTTPError", status |-> resp.status]>>
        ELSE <<>>

Requests(tr) == SelectSeq(tr, LAMBDA e : e.ev = "request")

\* a round trip: the request goes out, the response comes back
Exchange(tr, req, resp) ==
    tr \o <<req, [ev |-> "response", status |-> resp.status, text |-> resp.text]>>

AccumulateOverwriteMutant(acc, items) == items

\* res += response["items"]
Accumulate(acc, items) == acc \o items

WhileCondNoLoopMutant(page) == FALSE

\* while next_page := response.get("nextPagePath")
WhileCond(page) == Truthy(Get(page, "nextPagePath"))

ResSlotSharedMutant(c) == "self"

\* res = []: the frame that owns the accumulator of caller c's call
ResSlot(c) == c

Slots == Callers \cup {"self"}

\* the call raises: what it did so far, then the events of the failure
Raises(c, tr, evs) ==
    /\ pc' = [pc EXCEPT ![c] = "raised"]
    /\ trace' = [trace EXCEPT ![c] = tr \o evs]
    /\ UNCHANGED <<response, res, result>>

\* a page was decoded: append its items, then test the loop condition and
\* either wait for the next page or return res
GotPage(c, tr, page, acc) ==
    /\ response' = [response EXCEPT ![c] = page]
    /\ res' = [res EXCEPT ![ResSlot(c)] = Accumulate(acc, page.items)]
    /\ IF WhileCond(page)
          THEN /\ pc' = [pc EXCEPT ![c] = "paging"]
               /\ trace' = [trace EXCEPT ![c] = tr]
               /\ UNCHANGED result
          ELSE /\ pc' = [pc EXCEPT ![c] = "returned"]
               /\ trace' = [trace EXCEPT ![c] = Append(tr, [ev |-> "return"])]
               /\ result' = [result EXCEPT ![c] = res'[ResSlot(c)]]

\* _get(endpoint) then the start of _process_items: res = [], the first +=
FirstPageCall(c, method, endpoint, params) ==
    /\ pc[c] = "idle"
    /\ call' = [call EXCEPT ![c] = [method |-> method, endpoint |-> endpoint]]
    /\ LET req == _get(endpoint, params) IN
       \E resp \in Responses(req) :
          IF _process_response(resp) # <<>>
             THEN Raises(c, Exchange(<<>>, req, resp), _process_response(resp))
             ELSE GotPage(c, Exchange(<<>>, req, resp), resp.json, <<>>)
    /\ UNCHANGED <<api_key, host, demo, server>>

\* one iteration of the loop of _process_items
FetchNext(c) ==
    /\ pc[c] = "paging"
    /\ Len(Requests(trace[c])) < MaxRequests
    /\ LET next_page == Get(response[c], "nextPagePath").v
           req == _get_url(next_page) IN
       \E resp \in Responses(req) :
          IF _process_response(resp) # <<>>
             THEN Raises(c, Exchange(trace[c], req, resp), _process_response(resp))
             ELSE GotPage(c, Exchange(trace[c], req, resp), resp.json,
                          res[ResSlot(c)])
    /\ UNCHANGED <<api_key, host, demo, server, call>>

DefaultCursor == 0
DefaultLimit == 50

\* params of orders and dividends: ticker only when truthy
HistoryParams(ticker) ==
    IF Truthy(ticker)
        THEN [cursor |-> DefaultCursor, limit |-> DefaultLimit, ticker |-> ticker]
        ELSE [cursor |-> DefaultCursor, limit |-> DefaultLimit]

orders(c, ticker) ==
    FirstPageCall(c, "orders", "equity/history/orders", HistoryParams(ticker))

dividends(c, ticker) ==
    FirstPageCall(c, "dividends", "history/dividends", HistoryParams(ticker))

transactions(c) ==
    FirstPageCall(c, "transactions", "history/transactions",
                  [cursor |-> DefaultCursor, limit |-> DefaultLimit])

\* the caller takes the outcome; the frame's locals are gone
Finish(c) ==
    /\ pc[c] \in {"returned", "raised"}
    /\ pc' = [pc EXCEPT ![c] = "idle"]
    /\ call' = [call EXCEPT ![c] = None]
    /\ response' = [response EXCEPT ![c] = None]
    /\ res' = [res EXCEPT ![ResSlot(c)] = <<>>]
    /\ trace' = [trace EXCEPT ![c] = <<>>]
    /\ result' = [result EXCEPT ![c] = None]
    /\ UNCHANGED <<api_key, host, demo, server>>

Tickers == {None, PyStr("AAPL_US_EQ")}

---------------------------------------------------------------------------
(* Validators: each gives "ok" or the exception it raises *)

TimeValidityAcceptAllMutant(time_validity) == "ok"

\* _validate_time_validity
_validate_time_validity(time_validity) ==
    IF time_validity \notin {"GTC", "DAY"} THEN "ValueError" ELSE "ok"

IsDigit(ch) == ch \in {"0", "1", "2", "3", "4", "5", "6", "7", "8", "9"}
DigitVal(ch) == CHOOSE d \in 0..9 : ToString(d) = ch
Char(s, i) == SubSeq(s, i, i)
AllDigits(s) == \A i \in 1..Len(s) : IsDigit(Char(s, i))
RECURSIVE NumVal(_)
NumVal(s) ==
    IF Len(s) = 0 THEN 0
    ELSE 10 * NumVal(SubSeq(s, 1, Len(s) - 1)) + DigitVal(Char(s, Len(s)))

IsLeap(y) == (y % 4 = 0 /\ y % 100 # 0) \/ y % 400 = 0
DaysIn(y, m) ==
    CASE m = 2 -> IF IsLeap(y) THEN 29 ELSE 28
      [] m \in {4, 6, 9, 11} -> 30
      [] OTHER -> 31

\* datetime.strptime(date_text, "%Y-%m-%dT%H:%M:%SZ") succeeds, for texts
\* whose fields are written with all their digits (YYYY, MM, DD, HH, MM, SS)
strptime_ok(s) ==
    /\ Len(s) = 20
    /\ Char(s, 5) = "-" /\ Char(s, 8) = "-" /\ Char(s, 11) = "T"
    /\ Char(s, 14) = ":" /\ Char(s, 17) = ":" /\ Char(s, 20) = "Z"
    /\ AllDigits(SubSeq(s, 1, 4)) /\ AllDigits(SubSeq(s, 6, 7))
    /\ AllDigits(SubSeq(s, 9, 10)) /\ AllDigits(SubSeq(s, 12, 13))
    /\ AllDigits(SubSeq(s, 15, 16)) /\ AllDigits(SubSeq(s, 18, 19))
    /\ LET y == NumVal(SubSeq(s, 1, 4))
           m == NumVal(SubSeq(s, 6, 7))
           d == NumVal(SubSeq(s, 9, 10))
       IN /\ y >= 1 /\ m \in 1..12 /\ d >= 1 /\ d <= DaysIn(y, m)
          /\ NumVal(SubSeq(s, 12, 13)) <= 23
          /\ NumVal(SubSeq(s, 15, 16)) <= 59
          /\ NumVal(SubSeq(s, 18, 19)) <= 61

\* _validate_date
_validate_date(date_text) ==
    IF strptime_ok(date_text) THEN "ok" ELSE "ValueError"

\* _validate_dividend_cash_action
_validate_dividend_cash_action(dividend_cash_action) ==
    IF dividend_cash_action \notin {"REINVEST", "TO_ACCOUNT_CASH"}
        THEN "ValueError" ELSE "ok"

\* _validate_icon: valid_icons
valid_icons ==
    {"Home", "PiggyBank", "Iceberg", "Airplane", "RV", "Unicorn", "Whale",
     "Convertable", "Family",
     "Coins", "Education", "BillsAndCoins", "Bills", "Water", "Wind", "Car",
     "Briefcase", "Medical",
     "Landscape", "Child", "Vault", "Travel", "Cabin", "Apartments", "Burger",
     "Bus", "Energy",
     "Factory", "Global", "Leaf", "Materials", "Pill", "Ring", "Shipping",
     "Storefront", "Tech", "Umbrella"}

IconAcceptAllMutant(icon) == "ok"

\* _validate_icon
_validate_icon(icon) ==
    IF icon \notin valid_icons THEN "ValueError" ELSE "ok"

\* isinstance(value, (int, float)): bool is a subclass of int
IsIntOrFloat(value) == value.t \in {"int", "float", "bool"}

\* value <= 0: every comparison with nan is False; True is 1, False is 0
LeqZero(value) ==
    CASE value.t = "bool" -> ~value.v
      [] value.t = "float" -> ~value.nan /\ value.v <= 0
      [] OTHER -> value.v <= 0

\* the body of the for loop of _validate_instrument_shares, for one item
ShareItemCheck(item) ==
    IF item.key.t # "str" THEN "TypeError"
    ELSE IF ~IsIntOrFloat(item.value) THEN "TypeError"
    ELSE IF LeqZero(item.value) THEN "ValueError"
    ELSE "ok"

\* the for loop: the first item that raises ends it
RECURSIVE ShareItemsCheck(_)
ShareItemsCheck(items) ==
    IF items = <<>> THEN "ok"
    ELSE IF ShareItemCheck(Head(items)) # "ok" THEN ShareItemCheck(Head(items))
    ELSE ShareItemsCheck(Tail(items))

\* _validate_instrument_shares; a dict is its items in insertion order
_validate_instrument_shares(instrument_shares) ==
    IF instrument_shares.t # "dict" THEN "TypeError"
    ELSE IF instrument_shares.items = <<>> THEN "ValueError"
    ELSE ShareItemsCheck(instrument_shares.items)

\* the four validations of pie_create and pie_update, in the code's order:
\* the first that raises ends the call
PieValidation(dividend_cash_action, icon, end_date, instrument_shares) ==
    IF _validate_dividend_cash_action(dividend_cash_action) # "ok"
        THEN _validate_dividend_cash_action(dividend_cash_action)
    ELSE IF _validate_icon(icon) # "ok" THEN _validate_icon(icon)
    ELSE IF _validate_date(end_date) # "ok" THEN _validate_date(end_date)
    ELSE _validate_instrument_shares(instrument_shares)

---------------------------------------------------------------------------
(* Domain methods that issue at most one request *)

\* the call returns value
Returns(c, tr, value) ==
    /\ pc' = [pc EXCEPT ![c] = "returned"]
    /\ trace' = [trace EXCEPT ![c] = Append(tr, [ev |-> "return"])]
    /\ result' = [result EXCEPT ![c] = value]
    /\ UNCHANGED <<response, res>>

\* a method that sends req and returns the decoded response
SingleShot(c, method, args, req) ==
    /\ pc[c] = "idle"
    /\ call' = [call EXCEPT ![c] = [method |-> method, args |-> args]]
    /\ \E resp \in Responses(req) :
          IF _process_response(resp) # <<>>
             THEN Raises(c, Exchange(<<>>, req, resp), _process_response(resp))
             ELSE Returns(c, Exchange(<<>>, req, resp), resp.json)
    /\ UNCHANGED <<api_key, host, demo, server>>

\* a validator raised exc: the method ends before any request
Rejects(c, method, args, exc) ==
    /\ pc[c] = "idle"
    /\ call' = [call EXCEPT ![c] = [method |-> method, args |-> args]]
    /\ Raises(c, <<>>, <<[ev |-> "raise", exc |-> exc]>>)
    /\ UNCHANGED <<api_key, host, demo, server>>

export(c) == SingleShot(c, "export", None, _get("history/exports", None))

\* time_from, time_to: the texts strftime("%Y-%m-%dT%H:%M:%SZ") gives
export_csv(c, time_from_str, time_to_str, incl) ==
    SingleShot(c, "export_csv", [time_from |-> time_from_str, time_to |-> time_to_str],
        _post("/history/exports",
              [dataIncluded |-> [includeDividends |-> incl, includeInterest |-> incl,
                                 includeOrders |-> incl, includeTransactions |-> incl],
               timeFrom |-> time_from_str, timeTo |-> time_to_str]))

instruments(c) ==
    SingleShot(c, "instruments", None, _get("equity/metadata/instruments", None))

cash(c) == SingleShot(c, "cash", None, _get("equity/account/cash", None))

portfolio(c) == SingleShot(c, "portfolio", None, _get("equity/portfolio", None))

position(c, ticker) ==
    SingleShot(c, "position", [ticker |-> ticker],
               _get("equity/portfolio/" \o ticker, None))

exchanges(c) ==
    SingleShot(c, "exchanges", None, _get("equity/metadata/exchanges", None))

account_info(c) ==
    SingleShot(c, "account_info", None, _get("equity/account/info", None))

equity_orders(c) ==
    SingleShot(c, "equity_orders", None, _get("equity/orders", None))

equity_order(c, id) ==
    SingleShot(c, "equity_order", [id |-> id],
               _get("equity/orders/" \o ToString(id), None))

equity_order_cancel(c, id) ==
    SingleShot(c, "equity_order_cancel", [id |-> id],
               _delete_url("equity/orders/" \o ToString(id)))

equity_order_place_limit(c, ticker, quantity, limit_price, time_validity) ==
    LET args == [ticker |-> ticker, quantity |-> quantity,
                 limit_price |-> limit_price, time_validity |-> time_validity]
    IN  IF _validate_time_validity(time_validity) # "ok"
          THEN Rejects(c, "equity_order_place_limit", args,
                       _validate_time_validity(time_validity))
          ELSE SingleShot(c, "equity_order_place_limit", args,
                  _post("equity/orders/limit",
                        [quantity |-> quantity, limitPrice |-> limit_price,
                         ticker |-> ticker, timeValidity |-> time_validity]))

equity_order_place_market(c, ticker, quantity) ==
    SingleShot(c, "equity_order_place_market",
               [ticker |-> ticker, quantity |-> quantity],
               _post("equity/orders/market",
                     [quantity |-> quantity, ticker |-> ticker]))

equity_order_place_stop(c, ticker, quantity, stop_price, time_validity) ==
    LET args == [ticker |-> ticker, quantity |-> quantity,
                 stop_price |-> stop_price, time_validity |-> time_validity]
    IN  IF _validate_time_validity(time_validity) # "ok"
          THEN Rejects(c, "equity_order_place_stop", args,
                       _validate_time_validity(time_validity))
          ELSE SingleShot(c, "equity_order_place_stop", args,
                  _post("equity/orders/stop",
                        [quantity |-> quantity, stopPrice |-> stop_price,
                         ticker |-> ticker, timeValidity |-> time_validity]))

equity_order_place_stop_limit(c, ticker, quantity, stop_price, limit_price, time_validity) ==
    LET args == [ticker |-> ticker, quantity |-> quantity,
                 stop_price |-> stop_price, limit_price |-> limit_price,
                 time_validity |-> time_validity]
    IN  IF _validate_time_validity(time_validity) # "ok"
          THEN Rejects(c, "equity_order_place_stop_limit", args,
                       _validate_time_validity(time_validity))
          ELSE SingleShot(c, "equity_order_place_stop_limit", args,
                  _post("equity/orders/stop_limit",
                        [quantity |-> quantity, stopPrice |-> stop_price,
                         limitPrice |-> limit_price, ticker |-> ticker,
                         timeValidity |-> time_validity]))

pies(c) == SingleShot(c, "pies", None, _get("equity/pies", None))

pie_create(c, dividend_cash_action, end_date, goal, icon, instrument_shares, name) ==
    LET args == [dividend_cash_action |-> dividend_cash_action,
                 end_date |-> end_date, goal |-> goal, icon |-> icon,
                 instrument_shares |-> instrument_shares, name |-> name]
        check == PieValidation(dividend_cash_action, icon, end_date,
                               instrument_shares)
    IN  IF check # "ok"
          THEN Rejects(c, "pie_create", args, check)
          ELSE SingleShot(c, "pie_create", args,
                  _post("/equity/pies",
                        [dividendCashAction |-> dividend_cash_action,
                         endDate |-> end_date, goal |-> goal, icon |-> icon,
                         instrumentShares |-> instrument_shares,
                         name |-> name]))

pie_delete(c, id) ==
    SingleShot(c, "pie_delete", [id |-> id],
               _delete_url("/equity/pies/" \o ToString(id)))

pie(c, id) ==
    SingleShot(c, "pie", [id |-> id], _get("/equity/pies/" \o ToString(id), None))

pie_update(c, id, dividend_cash_action, end_date, goal, icon, instrument_shares, name) ==
    LET args == [id |-> id, dividend_cash_action |-> dividend_cash_action,
                 end_date |-> end_date, goal |-> goal, icon |-> icon,
                 instrument_shares |-> instrument_shares, name |-> name]
        check == PieValidation(dividend_cash_action, icon, end_date,
                               instrument_shares)
    IN  IF check # "ok"
          THEN Rejects(c, "pie_update", args, check)
          ELSE SingleShot(c, "pie_update", args,
                  _post("equity/pies/" \o ToString(id),
                        [dividendCashAction |-> dividend_cash_action,
                         endDate |-> end_date, goal |-> goal, icon |-> icon,
                         instrumentShares |-> instrument_shares,
                         name |-> name]))

\* __repr__: no request
Repr(c) ==
    /\ pc[c] = "idle"
    /\ call' = [call EXCEPT ![c] = [method |-> "__repr__", args |-> None]]
    /\ Returns(c, <<>>,
          PyStr("Trading212(api_key=****" \o Last4(api_key) \o ", demo="
                \o (IF host = "https://demo.trading212.com" THEN "True" ELSE "False")
                \o ")"))
    /\ UNCHANGED <<api_key, host, demo, server>>

---------------------------------------------------------------------------
(* Inputs *)

Ids == {1, 12}
TickerNames == {"AAPL_US_EQ"}
Quantities == {10}
Prices == {150}
TimeValidities == {"GTC", "DAY", "IOC", "gtc", ""}
DateTexts == {"2024-01-01T00:00:00Z", "2024-01-01"}
DividendCashActions == {"REINVEST", "TO_ACCOUNT_CASH", "PAYOUT"}
\* every valid icon, and names that are none of them
Icons == valid_icons \cup {"Rocket", "home", ""}
Goals == {1000}
PieNames == {"pie"}

ShareKeys == {PyStr("AAPL_US_EQ"), PyStr("MSFT_US_EQ"), PyInt(7)}
ShareValues ==
    {PyInt(2), PyInt(0), PyInt(-1), PyFloat(1), PyFloat(0), NaN,
     PyBool(TRUE), PyBool(FALSE), PyStr("3"), None}

Dict(items) == [t |-> "dict", items |-> items]

\* the dictionaries of n items with distinct keys, in every insertion order
DictsOfLen(n) ==
    {Dict(s) : s \in
        {s \in [1..n -> [key : ShareKeys, value : ShareValues]] :
            \A i, j \in 1..n : i # j => s[i].key # s[j].key}}

\* every instrument_shares argument: dictionaries, and values that are none
AllShares ==
    UNION {DictsOfLen(n) : n \in 0..MaxShares} \cup {[t |-> "list"], None}

GoodShares == Dict(<<[key |-> PyStr("AAPL_US_EQ"), value |-> PyInt(2)]>>)

\* a few of them, for the specifications that are not about the validators
SomeShares ==
    {GoodShares, Dict(<<>>),
     Dict(<<[key |-> PyStr("AAPL_US_EQ"), value |-> PyInt(2)],
            [key |-> PyStr("MSFT_US_EQ"), value |-> PyInt(0)]>>)}
SomeIcons == {"Home", "Umbrella", "Rocket"}

\* servers whose chains from page 1 and 2 are short, loop, or end
SomeServers ==
    {s \in Servers :
        /\ \A q \in Pages : q >= 3 => "nextPagePath" \notin DOMAIN s[q]
        /\ Get(s[2], "nextPagePath") \in {None, PyStr(PagePath(1)), PyStr(PagePath(3))}
        /\ Get(s[1], "nextPagePath") \in {PyStr(""), PyStr(PagePath(2))}
        /\ "nextPagePath" \in DOMAIN s[2]}

---------------------------------------------------------------------------
(* Specifications *)

Idle ==
    /\ pc = [c \in Callers |-> "idle"]
    /\ call = [c \in Callers |-> None]
    /\ response = [c \in Callers |-> None]
    /\ res = [s \in Slots |-> <<>>]
    /\ trace = [c \in Callers |-> <<>>]
    /\ result = [c \in Callers |-> None]

\* one caller pages through every server
InitPaging ==
    /\ api_key = "key-AAAA1111"
    /\ demo = TRUE
    /\ host = Host(demo)
    /\ server \in Servers
    /\ Idle

NextPaging ==
    \/ \E t \in Tickers : orders("t1", t)
    \/ \E t \in Tickers : dividends("t1", t)
    \/ transactions("t1")
    \/ FetchNext("t1")
    \/ Finish("t1")

SpecPaging == InitPaging /\ [][NextPaging]_vars

\* any public method, with its arguments drawn from the given sets
AnyMethod(c, TVs, DCAs, Dates, IconSet, ShareSet, IdSet) ==
    \/ FetchNext(c)
    \/ Finish(c)
    \/ /\ pc[c] = "idle"
       /\ \/ \E t \in Tickers : orders(c, t)
          \/ \E t \in Tickers : dividends(c, t)
          \/ transactions(c)
          \/ export(c)
          \/ \E incl \in BOOLEAN :
                export_csv(c, "2024-01-01T00:00:00Z", "2024-02-01T00:00:00Z", incl)
          \/ instruments(c)
          \/ cash(c)
          \/ portfolio(c)
          \/ \E t \in TickerNames : position(c, t)
          \/ exchanges(c)
          \/ account_info(c)
          \/ equity_orders(c)
          \/ \E id \in IdSet : equity_order(c, id)
          \/ \E id \in IdSet : equity_order_cancel(c, id)
          \/ \E t \in TickerNames, q \in Quantities, p \in Prices, tv \in TVs :
                equity_order_place_limit(c, t, q, p, tv)
          \/ \E t \in TickerNames, q \in Quantities : equity_order_place_market(c, t, q)
          \/ \E t \in TickerNames, q \in Quantities, p \in Prices, tv \in TVs :
                equity_order_place_stop(c, t, q, p, tv)
          \/ \E t \in TickerNames, q \in Quantities, p \in Prices, tv \in TVs :
                equity_order_place_stop_limit(c, t, q, p, p, tv)
          \/ pies(c)
          \/ \E a \in DCAs, d \in Dates, g \in Goals, i \in IconSet, sh \in ShareSet,
                n \in PieNames :
                pie_create(c, a, d, g, i, sh, n)
          \/ \E id \in IdSet : pie_delete(c, id)
          \/ \E id \in IdSet : pie(c, id)
          \/ \E id \in IdSet, a \in DCAs, d \in Dates, g \in Goals, i \in IconSet,
                sh \in ShareSet, n \in PieNames :
                pie_update(c, id, a, d, g, i, sh, n)
          \/ Repr(c)

\* one caller runs any public method of a client built with any key and flag
Init ==
    /\ api_key \in ApiKeys
    /\ demo \in BOOLEAN
    /\ host = Host(demo)
    /\ server \in SomeServers
    /\ Idle

Next ==
    AnyMethod("t1", TimeValidities, DividendCashActions, DateTexts, Icons,
              SomeShares, Ids)

Spec == Init /\ [][Next]_vars

\* two callers share one client and run any public methods
InitConcurrent ==
    /\ api_key = "key-AAAA1111"
    /\ demo = TRUE
    /\ host = Host(demo)
    /\ server \in {s \in SomeServers : Get(s[1], "nextPagePath") = PyStr(PagePath(2))
                                       /\ Get(s[2], "nextPagePath") # None}
    /\ Idle

NextConcurrent ==
    \E c \in Callers :
        AnyMethod(c, {"GTC", "IOC"}, {"REINVEST"}, {"2024-01-01T00:00:00Z"},
                  {"Home", "Rocket"}, {GoodShares}, {1})

SpecConcurrent == InitConcurrent /\ [][NextConcurrent]_vars

\* one caller creates and updates pies with every instrument_shares argument
InitShares ==
    /\ api_key = "key-AAAA1111"
    /\ demo = TRUE
    /\ host = Host(demo)
    /\ server \in {s \in SomeServers : Get(s[1], "nextPagePath") = PyStr("")
                                       /\ Get(s[2], "nextPagePath") = None}
    /\ Idle

NextShares ==
    \/ /\ pc["t1"] = "idle"
       /\ \E a \in {"REINVEST", "PAYOUT"}, d \in DateTexts, g \in Goals,
          i \in SomeIcons, sh \in AllShares, n \in PieNames :
          pie_create("t1", a, d, g, i, sh, n)
    \/ /\ pc["t1"] = "idle"
       /\ \E a \in {"REINVEST", "PAYOUT"}, d \in DateTexts, g \in Goals,
          i \in SomeIcons, sh \in AllShares, n \in PieNames :
          pie_update("t1", 1, a, d, g, i, sh, n)
    \/ Finish("t1")

SpecShares == InitShares /\ [][NextShares]_vars

---------------------------------------------------------------------------
(* Properties of pagination *)

PaginatedMethods == {"orders", "dividends", "transactions"}
IsPaginated(c) == pc[c] # "idle" /\ call[c].method \in PaginatedMethods

NextOf(q) == Get(server[q], "nextPagePath")
\* the page that page q's nextPagePath points to, if it points to one
PointedBy(q) == {n \in Pages : NextOf(q) = PyStr(PagePath(n))}

RECURSIVE Follow(_, _)
Follow(q, fuel) ==
    IF fuel = 0 \/ PointedBy(q) = {} THEN <<q>>
    ELSE <<q>> \o Follow(CHOOSE n \in PointedBy(q) : TRUE, fuel - 1)

\* the pages reached from q by following pointers; longer than NumPages
\* exactly when the pointers lead into a cycle
ChainOf(q) == Follow(q, NumPages)
IsCyclic(ch) == Len(ch) > NumPages
\* P1..Pn with every pointer leading to the next page and Pn's absent or null
IsFiniteChain(ch) == ~IsCyclic(ch) /\ NextOf(ch[Len(ch)]) = None

RECURSIVE ConcatItems(_)
ConcatItems(ch) ==
    IF ch = <<>> THEN <<>> ELSE server[Head(ch)].items \o ConcatItems(Tail(ch))

\* the pages a trace's GETs were addressed to, in order
PagesFetched(tr) ==
    [i \in 1..Len(Requests(tr)) |-> CHOOSE q \in Pages : q \in PagesAt(Requests(tr)[i].url)]

\* C1: over a finite chain P1..Pn (each pointer leading to the next page, the
\* last one absent or null) a paginated method fetches the pages in chain
\* order, holds the concatenation of the pages fetched so far, and returns
\* exactly P1.items ++ ... ++ Pn.items after exactly n requests.
C1_PaginationConcat ==
    \A c \in Callers :
        IsPaginated(c) =>
            LET ch == ChainOf(FirstPage(call[c].endpoint))
                k == Len(Requests(trace[c]))
            IN  IsFiniteChain(ch) =>
                  /\ k <= Len(ch)
                  /\ PagesFetched(trace[c]) = SubSeq(ch, 1, k)
                  /\ pc[c] = "paging" =>
                        k < Len(ch) /\ res[c] = ConcatItems(SubSeq(ch, 1, k))
                  /\ pc[c] = "returned" =>
                        k = Len(ch) /\ result[c] = ConcatItems(ch)

\* a call over a chain of at least two pages has returned three items
C1_Witness ==
    \E c \in Callers :
        /\ IsPaginated(c) /\ pc[c] = "returned"
        /\ LET ch == ChainOf(FirstPage(call[c].endpoint))
           IN  IsFiniteChain(ch) /\ Len(ch) >= 2 /\ result[c] = ConcatItems(ch)
        /\ Len(result[c]) >= 3

IsSuccess(status) == status >= 200 /\ status <= 299

C10_StopsOnlyAtAbsentOrNull ==
    \A c \in Callers :
        IsPaginated(c) =>
            /\ pc[c] = "returned" => Get(response[c], "nextPagePath") = None
            /\ pc[c] = "paging" => Get(response[c], "nextPagePath") # None
            /\ IsCyclic(ChainOf(FirstPage(call[c].endpoint))) => pc[c] # "returned"

\* C10 amended: a paginated call goes on while the latest page's nextPagePath
\* is truthy, returns at the first page fetched whose nextPagePath is absent,
\* null or an empty string, and never returns when the pointers form a cycle.
C10_StopsAtFirstFalsyPointer ==
    \A c \in Callers :
        IsPaginated(c) /\ pc[c] \in {"paging", "returned"} =>
            LET fetched == PagesFetched(trace[c])
                k == Len(fetched)
            IN  /\ response[c] = server[fetched[k]]
                /\ \A i \in 1..(k - 1) : Truthy(NextOf(fetched[i]))
                /\ pc[c] = "returned" => ~Truthy(NextOf(fetched[k]))
                /\ pc[c] = "paging" => Truthy(NextOf(fetched[k]))
                /\ IsCyclic(ChainOf(FirstPage(call[c].endpoint))) =>
                        pc[c] # "returned"

\* against a cycle the call is still fetching after MaxRequests requests,
\* having fetched some page twice
C10_Witness ==
    \E c \in Callers :
        /\ IsPaginated(c) /\ pc[c] = "paging"
        /\ IsCyclic(ChainOf(FirstPage(call[c].endpoint)))
        /\ Len(Requests(trace[c])) = MaxRequests
        /\ \E i, j \in 1..MaxRequests :
              i < j /\ PagesFetched(trace[c])[i] = PagesFetched(trace[c])[j]

---------------------------------------------------------------------------
(* Properties of the validators *)

Called(c, methods) == pc[c] # "idle" /\ call[c].method \in methods

\* the call ended in a raise of exc before any request went out
RejectedUnsent(c, excs) ==
    /\ pc[c] = "raised"
    /\ Len(trace[c]) = 1
    /\ trace[c][1].ev = "raise" /\ trace[c][1].exc \in excs
    /\ result[c] = None

ValidatedOrderMethods ==
    {"equity_order_place_limit", "equity_order_place_stop",
     "equity_order_place_stop_limit"}

\* C3: the limit, stop and stop-limit order methods raise ValueError with no
\* request issued when time_validity is neither GTC nor DAY, and issue
\* exactly one request, a POST, when it is GTC or DAY.
C3_TimeValidityGuardsOrders ==
    \A c \in Callers :
        Called(c, ValidatedOrderMethods) =>
            IF call[c].args.time_validity \notin {"GTC", "DAY"}
                THEN RejectedUnsent(c, {"ValueError"})
                ELSE /\ Len(Requests(trace[c])) = 1
                     /\ Requests(trace[c])[1].verb = "POST"
                     /\ Requests(trace[c])[1].payload.timeValidity
                            = call[c].args.time_validity

\* a stop-limit order with time_validity IOC was rejected unsent
C3_Witness ==
    \E c \in Callers :
        /\ Called(c, {"equity_order_place_stop_limit"})
        /\ call[c].args.time_validity = "IOC"
        /\ RejectedUnsent(c, {"ValueError"})

PieMethods == {"pie_create", "pie_update"}

\* what pie_create and pie_update do about icon and dividend_cash_action when
\* the icons they accept are the set `accepted`
PieEnumsGuarded(accepted) ==
    \A c \in Callers :
        Called(c, PieMethods) =>
            /\ (\/ call[c].args.icon \notin accepted
                \/ call[c].args.dividend_cash_action
                       \notin {"REINVEST", "TO_ACCOUNT_CASH"})
                  => RejectedUnsent(c, {"ValueError"})
            /\ (/\ call[c].args.icon \in accepted
                /\ call[c].args.dividend_cash_action
                       \in {"REINVEST", "TO_ACCOUNT_CASH"}
                /\ _validate_date(call[c].args.end_date) = "ok"
                /\ _validate_instrument_shares(call[c].args.instrument_shares) = "ok")
                  => /\ Len(Requests(trace[c])) = 1
                     /\ Requests(trace[c])[1].payload.icon = call[c].args.icon

\* C4 as stated: pie_create and pie_update reject, before any request, every
\* icon outside a fixed set of 36 names and every dividend_cash_action outside
\* {REINVEST, TO_ACCOUNT_CASH}, and the icons they accept are exactly those 36.
C4_IconSetHas36Names ==
    /\ PieEnumsGuarded(valid_icons)
    /\ \A c \in Callers :
          (Called(c, PieMethods) /\ Requests(trace[c]) # <<>>) =>
              Cardinality(valid_icons) = 36

\* C4 amended: the same, the fixed set of icon names having 37 members.
C4_IconSetHas37Names ==
    /\ PieEnumsGuarded(valid_icons)
    /\ \A c \in Callers :
          (Called(c, PieMethods) /\ Requests(trace[c]) # <<>>) =>
              Cardinality(valid_icons) = 37

\* pie_update was rejected unsent for an unknown icon, all else being valid
C4_Witness ==
    \E c \in Callers :
        /\ Called(c, {"pie_update"})
        /\ call[c].args.icon = "Rocket"
        /\ call[c].args.dividend_cash_action = "REINVEST"
        /\ _validate_date(call[c].args.end_date) = "ok"
        /\ _validate_instrument_shares(call[c].args.instrument_shares) = "ok"
        /\ RejectedUnsent(c, {"ValueError"})

\* a share count that is a number greater than zero
IsPositiveNumber(value) ==
    /\ value.t \in {"int", "float", "bool"}
    /\ CASE value.t = "bool" -> value.v
         [] value.t = "float" -> ~value.nan /\ value.v > 0
         [] OTHER -> value.v > 0

\* a non-empty mapping from string tickers to positive numeric share counts
IsValidShareMap(m) ==
    /\ m.t = "dict"
    /\ m.items # <<>>
    /\ \A i \in 1..Len(m.items) :
          m.items[i].key.t = "str" /\ IsPositiveNumber(m.items[i].value)

\* C5: pie_create and pie_update reject the whole instrument_shares argument,
\* with no request issued, unless it is a non-empty mapping whose every
\* ticker is a string and whose every share count is a positive number; when
\* they do send, they send the whole map.
C5_ShareMapAllOrNothing ==
    \A c \in Callers :
        Called(c, PieMethods) =>
            /\ ~IsValidShareMap(call[c].args.instrument_shares)
                  => RejectedUnsent(c, {"ValueError", "TypeError"})
            /\ Requests(trace[c]) # <<>> =>
                  /\ IsValidShareMap(call[c].args.instrument_shares)
                  /\ Requests(trace[c])[1].payload.instrumentShares
                        = call[c].args.instrument_shares

---------------------------------------------------------------------------
(* Properties of the requests *)

\* the path the HTTP surface lists for a call
SurfacePath(cl) ==
    CASE cl.method = "orders" -> "equity/history/orders"
      [] cl.method = "dividends" -> "history/dividends"
      [] cl.method = "transactions" -> "history/transactions"
      [] cl.method = "instruments" -> "equity/metadata/instruments"
      [] cl.method = "exchanges" -> "equity/metadata/exchanges"
      [] cl.method = "cash" -> "equity/account/cash"
      [] cl.method = "account_info" -> "equity/account/info"
      [] cl.method = "portfolio" -> "equity/portfolio"
      [] cl.method = "position" -> "equity/portfolio/" \o cl.args.ticker
      [] cl.method = "equity_orders" -> "equity/orders"
      [] cl.method \in {"equity_order", "equity_order_cancel"}
            -> "equity/orders/" \o ToString(cl.args.id)
      [] cl.method = "equity_order_place_market" -> "equity/orders/market"
      [] cl.method = "equity_order_place_limit" -> "equity/orders/limit"
      [] cl.method = "equity_order_place_stop" -> "equity/orders/stop"
      [] cl.method = "equity_order_place_stop_limit" -> "equity/orders/stop_limit"
      [] cl.method \in {"pies", "pie_create"} -> "equity/pies"
      [] cl.method \in {"pie", "pie_update", "pie_delete"}
            -> "equity/pies/" \o ToString(cl.args.id)
      [] cl.method \in {"export", "export_csv"} -> "history/exports"

\* C6: the first request of every domain method goes to
\* {host}/api/v0/ followed by the path the HTTP surface lists for it.
C6_FirstRequestUnderVersionedBase ==
    \A c \in Callers :
        (pc[c] # "idle" /\ Requests(trace[c]) # <<>>) =>
            Requests(trace[c])[1].url = host \o "/api/v0/" \o SurfacePath(call[c])

\* C7: every request issued, of any verb and at any point of a call, carries
\* an Authorization header equal to the api_key the client was built with.
C7_EveryRequestAuthorized ==
    \A c \in Callers :
        \A i \in 1..Len(trace[c]) :
            trace[c][i].ev = "request" =>
                /\ "Authorization" \in DOMAIN trace[c][i].headers
                /\ trace[c][i].headers.Authorization = api_key

\* a follow-up page request went out with the key
C7_Witness ==
    \E c \in Callers :
        /\ Called(c, PaginatedMethods)
        /\ Len(Requests(trace[c])) >= 2
        /\ Requests(trace[c])[2].verb = "GET"
        /\ Requests(trace[c])[2].headers.Authorization = api_key

\* C9: whatever the demo flag, the client's host is the live host, every
\* request goes there, and __repr__ reports demo=False.
C9_HostIgnoresDemo ==
    /\ host = "https://live.trading212.com"
    /\ \A c \in Callers :
          /\ \A i \in 1..Len(trace[c]) :
                trace[c][i].ev = "request" =>
                    StartsWith(trace[c][i].url, "https://live.trading212.com/")
          /\ (Called(c, {"__repr__"}) /\ pc[c] = "returned") =>
                result[c] = PyStr("Trading212(api_key=****" \o Last4(api_key)
                                  \o ", demo=False)")

\* a client built with demo=True printed itself
C9_Witness ==
    \E c \in Callers :
        /\ demo = TRUE
        /\ Called(c, {"__repr__"})
        /\ pc[c] = "returned"
        /\ result[c].t = "str"

---------------------------------------------------------------------------
(* Properties of concurrent callers *)

\* what a caller's own page fetches add up to
OwnItems(c) == ConcatItems(PagesFetched(trace[c]))

EachCallerGetsOwnPages ==
    \A c \in Callers :
        (IsPaginated(c) /\ pc[c] \in {"paging", "returned"}) =>
            /\ res[ResSlot(c)] = OwnItems(c)
            /\ pc[c] = "returned" => result[c] = OwnItems(c)

\* C8: with two callers running any public methods on one client under every
\* interleaving, no step changes api_key or host, and each paginated call
\* holds and returns exactly the concatenation of the pages it fetched itself.
C8_ConcurrentCallersIsolated ==
    /\ []EachCallerGetsOwnPages
    /\ [][api_key' = api_key /\ host' = host]_vars

\* one caller has returned three pages' items while the other, on another
\* endpoint, is between two page fetches
C8_Witness ==
    /\ IsPaginated("t1") /\ pc["t1"] = "returned"
    /\ Len(Requests(trace["t1"])) >= 3
    /\ IsPaginated("t2") /\ pc["t2"] = "paging"
    /\ call["t1"].method # call["t2"].method
    /\ res["t2"] # <<>>
    /\ result["t1"] = OwnItems("t1") /\ result["t1"] # <<>>

=============================================================================
